---- MODULE Spec2Model ----
(***************************************************************************)
(* Model of the oto definition parser (src/parser/parser.go).              *)
(*                                                                         *)
(* Strings that the parser builds or compares (type names, type IDs) are   *)
(* sequences of tokens, so that "*" + name, pkg + "." + name and           *)
(* strings.HasPrefix / strings.TrimPrefix are computed as the code         *)
(* computes them.  Go type handles (go/types) are records with a kind k.   *)
(***************************************************************************)
EXTENDS Integers, Sequences, FiniteSets, TLC

\* ------------------------------------------------------------------------
\* Bounds of the model
\* ------------------------------------------------------------------------

\* Deepest call stack the model follows; a push beyond it is disabled, so a
\* runaway recursion shows as a state that is stuck before Parse returns.
MaxDepth == 12

\* Longest include-list and exclude-list configured on the Parser.
MaxFilter == 1
MaxLines == 3

\* ------------------------------------------------------------------------
\* go/types type handles
\* ------------------------------------------------------------------------

Basic(n) == [k |-> "basic", pkg |-> "", name |-> n, args |-> <<>>]
Named(p, n) == [k |-> "named", pkg |-> p, name |-> n, args |-> <<>>]
Pointer(t) == [k |-> "pointer", pkg |-> "", name |-> "", args |-> <<t>>]
Slice(t) == [k |-> "slice", pkg |-> "", name |-> "", args |-> <<t>>]
MapOf(kt, vt) == [k |-> "map", pkg |-> "", name |-> "", args |-> <<kt, vt>>]
\* a struct type with its fields; the anonymous literal struct{}; interface{}
StructOf(fields) ==
    [k |-> "struct", pkg |-> "", name |-> "", args |-> <<>>, fields |-> fields]
StructLit == StructOf(<<>>)
InterfaceLit == [k |-> "interface", pkg |-> "", name |-> "", args |-> <<>>]

\* package paths and package names (go/packages)
Pleasantries == "testdata/services/pleasantries"
Extra == "testdata/extra"

PkgName(path) ==
    CASE path = Pleasantries -> "pleasantries"
      [] path = Extra -> "extra"
      [] OTHER -> path

\* ------------------------------------------------------------------------
\* struct tags (github.com/fatih/structtag)
\* ------------------------------------------------------------------------

\* A raw tag is the list of its key:"name,options" entries, or malformed.
NoTag == [malformed |-> FALSE, tags |-> <<>>]
JSONTag(name, options) ==
    [malformed |-> FALSE,
     tags |-> <<[Key |-> "json", Name |-> name, Options |-> options]>>]
MalformedTag == [malformed |-> TRUE, tags |-> <<>>]

\* parseTags: the error flag and the key -> FieldTag mapping, as the set of
\* its entries (a later entry of the same key overwrites an earlier one).
parseTags(tag) ==
    [err |-> tag.malformed,
     fieldTags |->
        IF tag.malformed THEN {}
        ELSE { [Key |-> tag.tags[i].Key,
                Value |-> tag.tags[i].Name,
                Options |-> tag.tags[i].Options] :
               i \in {j \in 1..Len(tag.tags) :
                        \A l \in (j+1)..Len(tag.tags) :
                            tag.tags[l].Key # tag.tags[j].Key} }]

\* ------------------------------------------------------------------------
\* The declarations of the loaded program (the testdata packages, extended)
\* ------------------------------------------------------------------------

FieldDecl(n, t, tag) == [name |-> n, exported |-> TRUE, typ |-> t, tag |-> tag]
Unexported(n, t, tag) == [name |-> n, exported |-> FALSE, typ |-> t, tag |-> tag]

TimeTime == Named("time", "Time")
ContextContext == Named("context", "Context")
ErrorType == Named("", "error")

\* Fields of the named struct types, in declaration order.
StructFields(p, n) ==
    CASE p = Pleasantries /\ n = "GreetRequest" ->
            << FieldDecl("Name", Basic("string"), JSONTag("name", <<"omitempty">>)),
               Unexported("secret", Named(Pleasantries, "Hidden"), MalformedTag) >>
      [] p = Pleasantries /\ n = "GreetResponse" ->
            << FieldDecl("Greeting", Basic("string"), NoTag) >>
      [] p = Pleasantries /\ n = "DoSomethingStrangeRequest" ->
            << FieldDecl("Anything", InterfaceLit, NoTag),
               FieldDecl("Private", StructLit, JSONTag("-", <<>>)),
               FieldDecl("Gone", Named(Pleasantries, "Hidden"), JSONTag("-", <<>>)),
               FieldDecl("OptionalTime", Pointer(TimeTime), JSONTag("", <<"omitempty">>)),
               FieldDecl("InfiniteLoop", Pointer(Named(Pleasantries, "InfiniteLoop")), NoTag) >>
      [] p = Pleasantries /\ n = "InfiniteLoop" ->
            << FieldDecl("InfiniteLoop", Pointer(Named(Pleasantries, "InfiniteLoop")), NoTag),
               FieldDecl("Peers", Slice(Named(Pleasantries, "Peer")), NoTag) >>
      [] p = Pleasantries /\ n = "Peer" ->
            << FieldDecl("Owner", Pointer(Named(Pleasantries, "InfiniteLoop")), NoTag) >>
      [] p = Pleasantries /\ n = "DoSomethingStrangeResponse" ->
            << FieldDecl("Value", InterfaceLit, NoTag),
               FieldDecl("Size", Basic("int"), NoTag) >>
      [] p = Pleasantries /\ n = "Hidden" ->
            << FieldDecl("X", Basic("string"), NoTag) >>
      [] p = Pleasantries /\ n = "Nested" ->
            << FieldDecl("Inner", StructLit, NoTag) >>
      [] p = Pleasantries /\ n = "BadTag" ->
            << FieldDecl("F", Basic("string"), MalformedTag) >>
      [] p = Pleasantries /\ n = "Dict" ->
            << FieldDecl("ByKey", MapOf(Named(Pleasantries, "Key"),
                                        Named(Pleasantries, "GreetResponse")), NoTag),
               FieldDecl("Seen", MapOf(Basic("string"), TimeTime), NoTag),
               FieldDecl("Alias", Named(Pleasantries, "Alias"), NoTag) >>
      [] p = Pleasantries /\ n = "Key" ->
            << FieldDecl("ID", Basic("string"), NoTag) >>
      [] p = Pleasantries /\ n = "AcclaimResponse" ->
            << FieldDecl("Note", Basic("string"), NoTag) >>
      [] p = Extra /\ n = "AcclaimRequest" ->
            << FieldDecl("Name", Basic("string"), NoTag),
               FieldDecl("Enthusiasm", Basic("int"), NoTag) >>
      [] p = Extra /\ n = "AcclaimResponse" ->
            << FieldDecl("Acclamation", Basic("string"),
                         JSONTag("acclamation", <<"omitempty">>)) >>
      [] p = "time" /\ n = "Time" ->
            << Unexported("wall", Basic("uint64"), NoTag),
               Unexported("ext", Basic("int64"), NoTag) >>
      [] OTHER -> <<>>

\* The named struct types of the program.
StructNames ==
    { <<Pleasantries, "GreetRequest">>, <<Pleasantries, "GreetResponse">>,
      <<Pleasantries, "DoSomethingStrangeRequest">>, <<Pleasantries, "InfiniteLoop">>,
      <<Pleasantries, "Peer">>, <<Pleasantries, "DoSomethingStrangeResponse">>,
      <<Pleasantries, "Hidden">>, <<Pleasantries, "Nested">>, <<Pleasantries, "BadTag">>,
      <<Pleasantries, "Dict">>, <<Pleasantries, "Key">>,
      <<Pleasantries, "AcclaimResponse">>,
      <<Extra, "AcclaimRequest">>, <<Extra, "AcclaimResponse">>,
      <<"time", "Time">> }

\* typ.Underlying(): the kind of a named type's declaration; of the others, the
\* type itself.  (Alias is declared "type Alias string", Params
\* "type Params map[string]interface{}".)
Underlying(t) ==
    IF t.k # "named" THEN t
    ELSE IF <<t.pkg, t.name>> \in StructNames THEN StructOf(StructFields(t.pkg, t.name))
    ELSE IF t.pkg = Pleasantries /\ t.name = "Alias" THEN Basic("string")
    ELSE IF t.pkg = Pleasantries /\ t.name = "Params"
    THEN MapOf(Basic("string"), InterfaceLit)
    ELSE IF t.pkg = "context" THEN InterfaceLit
    ELSE IF t.name = "error" THEN InterfaceLit
    ELSE t

\* ------------------------------------------------------------------------
\* Strings as token sequences
\* ------------------------------------------------------------------------

\* strings.HasPrefix(s, "*") and strings.TrimPrefix(s, "*")
HasPrefixStar(s) == Len(s) > 0 /\ s[1] = "*"
TrimPrefixStar(s) == IF HasPrefixStar(s) THEN Tail(s) ELSE s

\* the qualifier handed to types.TypeString: the resolver closure of
\* parseTypeDecl prefixes the name of a package other than the current one;
\* the other qualifier used there returns "" for every package (cur = "").
\* FullPath stands for the nil qualifier of Type.String(): the package path.
FullPath == "<path>"
Qualifier(other, cur) ==
    IF cur = FullPath THEN other
    ELSE IF cur # "" /\ PkgName(other) # cur THEN PkgName(other) ELSE ""

\* types.TypeString(t, qualifier)
RECURSIVE TypeString(_, _)
RECURSIVE FieldsString(_, _, _)
FieldsString(fields, i, cur) ==
    IF i > Len(fields) THEN <<>>
    ELSE (IF i > 1 THEN <<"; ">> ELSE <<>>)
         \o <<fields[i].name, " ">> \o TypeString(fields[i].typ, cur)
         \o FieldsString(fields, i + 1, cur)
TypeString(t, cur) ==
    CASE t.k = "basic" -> <<t.name>>
      [] t.k = "named" ->
            IF t.pkg # "" /\ Qualifier(t.pkg, cur) # ""
            THEN <<Qualifier(t.pkg, cur), ".", t.name>>
            ELSE <<t.name>>
      [] t.k = "pointer" -> <<"*">> \o TypeString(t.args[1], cur)
      [] t.k = "slice" -> <<"[]">> \o TypeString(t.args[1], cur)
      [] t.k = "map" ->
            <<"map[">> \o TypeString(t.args[1], cur) \o <<"]">>
                       \o TypeString(t.args[2], cur)
      [] t.k = "struct" -> <<"struct{">> \o FieldsString(t.fields, 1, cur) \o <<"}">>
      [] t.k = "interface" -> <<"interface{}">>

\* The packages the resolver closure is called with while TypeString prints
\* t, in order: those of the named types whose package name is not cur.
RECURSIVE ResolverCalls(_, _)
ResolverCalls(t, cur) ==
    CASE t.k = "named" ->
            IF t.pkg # "" /\ PkgName(t.pkg) # cur THEN <<t.pkg>> ELSE <<>>
      [] t.k \in {"pointer", "slice"} -> ResolverCalls(t.args[1], cur)
      [] t.k = "map" -> ResolverCalls(t.args[1], cur) \o ResolverCalls(t.args[2], cur)
      [] OTHER -> <<>>

\* ------------------------------------------------------------------------
\* Type, Field, Object, Method, Service, Definition
\* ------------------------------------------------------------------------

\* The zero Type.
ZeroType ==
    [TypeID |-> <<>>, TypeName |-> <<>>, ObjectName |-> <<>>,
     CleanObjectName |-> <<>>, UnderlyingTypeName |-> <<>>,
     Multiple |-> FALSE, Package |-> "", IsObject |-> FALSE, IsMap |-> FALSE,
     JSType |-> <<>>, TSType |-> <<>>]

\* Type.IsOptional
IsOptional(f) == HasPrefixStar(f.ObjectName)

\* typ.String() == "time.Time"
IsTimeTime(t) == TypeString(t, FullPath) = <<"time", ".", "Time">>

\* a named type whose underlying type is a struct
IsNamedStruct(t) == t.k = "named" /\ Underlying(t).k = "struct"

\* parseTypeDecl, the unwrapping: the slice's element, then the pointer's.
OriginalTyp(objType) == IF objType.k = "slice" THEN objType.args[1] ELSE objType
UnwrappedTyp(objType) ==
    IF OriginalTyp(objType).k = "pointer"
    THEN OriginalTyp(objType).args[1]
    ELSE OriginalTyp(objType)

\* parseTypeDecl: the named struct types it hands to parseObject, in order:
\* the unwrapped type itself (unless it is time.Time), or a map's key and
\* element types.
ObjectCalls(objType) ==
    LET typ == UnwrappedTyp(objType) IN
    IF typ.k = "named" /\ ~IsTimeTime(typ) /\ IsNamedStruct(typ) THEN <<typ>>
    ELSE IF typ.k = "map"
    THEN (IF IsNamedStruct(typ.args[1]) THEN <<typ.args[1]>> ELSE <<>>)
         \o (IF IsNamedStruct(typ.args[2]) THEN <<typ.args[2]>> ELSE <<>>)
    ELSE <<>>

\* parseTypeDecl: the primitive hints for an underlying type name.
JSTypeOf(under, clean) ==
    CASE under = <<"interface{}">> -> <<"any">>
      [] under = <<"map[", "string", "]", "interface{}">> -> <<"object">>
      [] under = <<"string">> -> <<"string">>
      [] under = <<"bool">> -> <<"boolean">>
      [] under \in { <<"int">>, <<"int16">>, <<"int32">>, <<"int64">>,
                     <<"uint">>, <<"uint16">>, <<"uint32">>, <<"uint64">>,
                     <<"float32">>, <<"float64">> } -> <<"number">>
      [] OTHER -> clean
TSTypeOf(under, clean) ==
    CASE under = <<"interface{}">> -> <<"object">>
      [] under = <<"map[", "string", "]", "interface{}">> -> <<"object">>
      [] under = <<"string">> -> <<"string">>
      [] under = <<"bool">> -> <<"boolean">>
      [] under \in { <<"int">>, <<"int16">>, <<"int32">>, <<"int64">>,
                     <<"uint">>, <<"uint16">>, <<"uint32">>, <<"uint64">>,
                     <<"float32">>, <<"float64">> } -> <<"number">>
      [] OTHER -> clean

\* parseTypeDecl after its parseObject calls returned: the error flag (a
\* nested struct), the Type, and the packages the resolver recorded.
\* pkg is the path of the package being parsed.
ParseTypeDeclResult(pkg, objType) ==
    LET originalTyp == OriginalTyp(objType)
        typ == UnwrappedTyp(objType)
        isObject == typ.k = "named" /\ ~IsTimeTime(typ) /\ IsNamedStruct(typ)
        isMap == typ.k = "map"
        under == IF IsTimeTime(typ) THEN <<"string">>
                 ELSE TrimPrefixStar(TypeString(Underlying(typ), ""))
        resolved == ResolverCalls(originalTyp, PkgName(pkg))
        pkgPath == IF resolved = <<>> THEN pkg ELSE resolved[Len(resolved)]
        objectName == TypeString(originalTyp, "")
        clean == TrimPrefixStar(objectName)
    IN  [err |-> typ.k = "struct",
         imports |-> resolved,
         t |-> [TypeID |-> <<pkgPath, ".">> \o objectName,
                TypeName |-> TypeString(originalTyp, PkgName(pkg)),
                ObjectName |-> objectName,
                CleanObjectName |-> clean,
                UnderlyingTypeName |-> under,
                Multiple |-> objType.k = "slice",
                Package |-> IF resolved = <<>> THEN "" ELSE resolved[Len(resolved)],
                IsObject |-> isObject,
                IsMap |-> isMap,
                JSType |-> IF isObject \/ isMap THEN <<"object">>
                           ELSE JSTypeOf(under, clean),
                TSType |-> IF isObject \/ isMap THEN clean
                           ELSE TSTypeOf(under, clean)]]

\* A faulty variant: the "-" is looked for among the options of the json tag
FieldSkipByOption(fieldTags) ==
    \E jsonTag \in fieldTags :
        /\ jsonTag.Key = "json"
        /\ \E i \in 1..Len(jsonTag.Options) : jsonTag.Options[i] = "-"

\* parseField up to the type: the Field built from the declaration and its
\* parsed tags.
FieldSkip(fieldTags) ==
    \E jsonTag \in fieldTags : jsonTag.Key = "json" /\ jsonTag.Value = "-"

ParseFieldHead(fd, fieldTags) ==
    LET hasJSON == \E e \in fieldTags : e.Key = "json"
        jsonTag == CHOOSE e \in fieldTags : e.Key = "json"
    IN  [Name |-> fd.name,
         NameJSON |-> IF hasJSON /\ jsonTag.Value # "" THEN jsonTag.Value ELSE fd.name,
         OmitEmpty |-> hasJSON /\ \E i \in 1..Len(jsonTag.Options) :
                                      jsonTag.Options[i] = "omitempty",
         Skip |-> FieldSkip(fieldTags),
         Type |-> ZeroType]

\* addOutputFields: the built-in field.
errorField ==
    [Name |-> "Error", NameJSON |-> "", OmitEmpty |-> TRUE, Skip |-> FALSE,
     Type |-> [ZeroType EXCEPT !.TypeName = <<"string">>,
                               !.JSType = <<"string">>,
                               !.TSType = <<"string">>]]

\* parseObject: the Object before its fields are read.
NewObject(pkg, o) ==
    [TypeID |-> <<o.pkg, ".", o.name>>,
     Name |-> o.name,
     Imported |-> PkgName(o.pkg) # PkgName(pkg),
     Package |-> IF PkgName(o.pkg) # PkgName(pkg) THEN o.pkg ELSE "",
     Fields |-> <<>>]

\* isInSlice
isInSlice(slice, s) == \E i \in 1..Len(slice) : slice[i] = s


\* ------------------------------------------------------------------------
\* Ordering of names and sort.Slice
\* ------------------------------------------------------------------------

\* The names of the program in ascending ordinal (byte-wise) order.
NameOrder ==
    << "AcclaimRequest", "AcclaimResponse", "AcclaimerService", "BadTag", "Dict",
       "DoSomethingStrangeRequest", "DoSomethingStrangeResponse", "GreetRequest",
       "GreetResponse", "GreeterService", "Hidden", "InfiniteLoop", "Key",
       "Nested", "Peer", "StrangeTypesService", "Time" >>

NameRank(n) == CHOOSE i \in 1..Len(NameOrder) : NameOrder[i] = n

\* A faulty variant: the comparison reversed
GreaterName(a, b) == NameRank(a.Name) > NameRank(b.Name)

\* the less function of both sort.Slice calls: Name < Name
LessName(a, b) == NameRank(a.Name) < NameRank(b.Name)

\* sort.Slice on a slice shorter than 12 elements is an insertion sort: an
\* element lands behind the elements that are less than it and behind those
\* before it that it is not less than.
SortedPosition(list, k) ==
    1 + Cardinality({ j \in 1..Len(list) :
                        \/ LessName(list[j], list[k])
                        \/ j < k /\ ~LessName(list[k], list[j]) })

SortSlice(list) ==
    [i \in 1..Len(list) |-> list[CHOOSE k \in 1..Len(list) : SortedPosition(list, k) = i]]

\* ------------------------------------------------------------------------
\* The interfaces of the program
\* ------------------------------------------------------------------------

MethodDecl(n, params, results) == [name |-> n, params |-> params, results |-> results]

GreetRequest == Named(Pleasantries, "GreetRequest")
GreetResponse == Named(Pleasantries, "GreetResponse")
AcclaimRequest == Named(Extra, "AcclaimRequest")
AcclaimResponse == Named(Extra, "AcclaimResponse")

Greet == MethodDecl("Greet", <<GreetRequest>>, <<GreetResponse>>)
GreetCtx ==
    MethodDecl("GreetCtx", <<ContextContext, Pointer(GreetRequest)>>,
               <<Pointer(GreetResponse), ErrorType>>)
List == MethodDecl("List", <<Named(Pleasantries, "Dict")>>, <<Slice(GreetResponse)>>)
Praise ==
    MethodDecl("Praise", <<ContextContext, AcclaimRequest>>,
               <<AcclaimResponse, ErrorType>>)
DoSomethingStrange ==
    MethodDecl("DoSomethingStrange",
               <<Named(Pleasantries, "DoSomethingStrangeRequest")>>,
               <<Named(Pleasantries, "DoSomethingStrangeResponse")>>)
Note ==
    MethodDecl("Note", <<GreetRequest>>, <<Named(Pleasantries, "AcclaimResponse")>>)
NoArgs == MethodDecl("NoArgs", <<>>, <<GreetResponse>>)
TwoArgs == MethodDecl("TwoArgs", <<GreetRequest, GreetRequest>>, <<GreetResponse>>)
ThreeArgs ==
    MethodDecl("ThreeArgs", <<ContextContext, GreetRequest, GreetRequest>>,
               <<GreetResponse>>)
NoResult == MethodDecl("NoResult", <<GreetRequest>>, <<>>)
TwoResults ==
    MethodDecl("TwoResults", <<GreetRequest>>, <<GreetResponse, GreetResponse>>)
ThreeResults ==
    MethodDecl("ThreeResults", <<GreetRequest>>,
               <<GreetResponse, ErrorType, ErrorType>>)
NestedIn ==
    MethodDecl("NestedIn", <<Named(Pleasantries, "Nested")>>,
               <<GreetResponse, GreetResponse>>)
NestedOut == MethodDecl("NestedOut", <<GreetRequest>>, <<Named(Pleasantries, "Nested")>>)
TagIn == MethodDecl("TagIn", <<Named(Pleasantries, "BadTag")>>, <<GreetResponse>>)
Acclaim ==
    MethodDecl("Acclaim", <<ContextContext, Pointer(AcclaimRequest)>>,
               <<Pointer(AcclaimResponse), ErrorType>>)
Applaud == MethodDecl("Applaud", <<AcclaimRequest>>, <<AcclaimResponse>>)
Echo == MethodDecl("Echo", <<AcclaimResponse>>, <<AcclaimRequest>>)

\* scope.Names() restricted to the interfaces: sorted by name.
ScopeNames(path) ==
    CASE path = Pleasantries -> <<"GreeterService", "StrangeTypesService">>
      [] path = Extra -> <<"AcclaimerService">>
      [] OTHER -> <<>>

\* The method lists an interface may be declared with.
MethodLists(name) ==
    CASE name = "GreeterService" ->
            { <<Greet>>, <<GreetCtx>>, <<Greet, GreetCtx>>, <<List>>, <<Praise>> }
      [] name = "StrangeTypesService" ->
            { <<DoSomethingStrange>>, <<Note>>, <<GreetCtx>>,
              <<NoArgs>>, <<TwoArgs>>, <<ThreeArgs>>, <<NoResult>>, <<TwoResults>>,
              <<ThreeResults>>, <<NestedIn>>, <<NestedOut>>, <<TagIn>> }
      [] name = "AcclaimerService" -> { <<Acclaim>>, <<Applaud>>, <<Echo>> }

InterfaceNames == {"GreeterService", "StrangeTypesService", "AcclaimerService"}

\* The package lists packages.Load may return.
PatternChoices ==
    { <<Pleasantries>>, <<Pleasantries, Extra>>, <<Extra, Pleasantries>> }

\* The interfaces declared in the packages of a list.
Declared(pkgs) ==
    UNION { { ScopeNames(pkgs[i])[j] : j \in 1..Len(ScopeNames(pkgs[i])) } :
            i \in 1..Len(pkgs) }

\* The include-lists and exclude-lists: up to MaxFilter interface names, in
\* ascending order.
RECURSIVE SeqOfNames(_)
SeqOfNames(S) ==
    IF S = {} THEN <<>>
    ELSE LET n == CHOOSE x \in S : \A y \in S : NameRank(x) <= NameRank(y)
         IN  <<n>> \o SeqOfNames(S \ {n})
FilterChoices ==
    { SeqOfNames(S) : S \in { T \in SUBSET InterfaceNames : Cardinality(T) <= MaxFilter } }


\* ------------------------------------------------------------------------
\* State
\* ------------------------------------------------------------------------

VARIABLES
    patterns,               \* the packages packages.Load returns, in order
    program,                \* interface name -> its methods, in order
    IncludeInterfaces,      \* Parser.IncludeInterfaces
    ExcludeInterfaces,      \* Parser.ExcludeInterfaces
    def,                    \* Parser.def
    outputObjects,          \* Parser.outputObjects (keys: type names)
    objects,                \* Parser.objects (keys: object names)
    excludedObjectsTypeIDs, \* Parse's local list
    pkgIdx,                 \* Parse's position in pkgs
    nameIdx,                \* Parse's position in scope.Names()
    stack,                  \* the calls below Parse, innermost last
    pc,                     \* where Parse is
    err,                    \* the error Parse returned
    inMethod,               \* the method parseMethod was last called with
    extract,                \* a call of extractCommentMetadata: its locals and results
    returned,               \* what the earlier calls of Parse returned
    hint                    \* a call of parseTypeDecl on a type without records to parse

inputs == <<patterns, program, IncludeInterfaces, ExcludeInterfaces>>
parserVars ==
    <<patterns, program, IncludeInterfaces, ExcludeInterfaces, def, outputObjects,
      objects, excludedObjectsTypeIDs, pkgIdx, nameIdx, stack, pc, err, inMethod>>
vars == <<parserVars, extract, returned, hint>>

NilErr == [kind |-> "nil", wraps |-> <<>>]
NoImports == [x \in {} |-> ""]
ZeroField ==
    [Name |-> "", NameJSON |-> "", OmitEmpty |-> FALSE, Skip |-> FALSE, Type |-> ZeroType]

\* ------------------------------------------------------------------------
\* Comments
\* ------------------------------------------------------------------------

\* A line is a sequence of characters.  "L" stands for a run of letters as
\* long as the scanner's buffer (bufio.MaxScanTokenSize, 64 KiB).
Line(chars) == chars
CommentLines ==
    { Line(<<>>),
      Line(<<" ">>),
      Line(<<"a">>),
      Line(<<" ", "a", " ">>),
      Line(<<"a", ":">>),
      Line(<<"a", ":", "1">>),
      Line(<<"a", ":", " ">>),
      Line(<<"a", ":", " ", "1">>),
      Line(<<"a", ":", " ", "1", "1">>),
      Line(<<" ", "a", ":", " ", " ", "1", " ">>),
      Line(<<"a", ":", " ", "a">>),
      Line(<<"a", ":", " ", "1", " ", "1">>),
      Line(<<"a", "a", ":", " ", "1">>),
      Line(<<":", " ", "1">>),
      Line(<<"a", ":", " ", "a", ":", " ", "1">>),
      Line(<<"a", "L">>) }

\* The comments: up to MaxLines lines.
Comments == UNION { [1..n -> CommentLines] : n \in 0..MaxLines }

\* strings.TrimSpace
TrimSpace(s) ==
    LET inked == { i \in 1..Len(s) : s[i] # " " }
    IN  IF inked = {} THEN <<>>
        ELSE SubSeq(s, CHOOSE i \in inked : \A j \in inked : i <= j,
                       CHOOSE i \in inked : \A j \in inked : i >= j)

\* metadataCommentRegex (^.*: .*): the places of a colon followed by a space
ColonSpaces(line) ==
    { i \in 1..(Len(line) - 1) : line[i] = ":" /\ line[i + 1] = " " }
MatchString(line) == ColonSpaces(line) # {}

\* strings.SplitN(line, ": ", 2)
SplitN(line) ==
    LET i == CHOOSE k \in ColonSpaces(line) : \A j \in ColonSpaces(line) : k <= j
    IN  << SubSeq(line, 1, i - 1), SubSeq(line, i + 2, Len(line)) >>

\* json.Unmarshal([]byte(value), &val): over these characters the JSON
\* values are the numbers, runs of the digit 1 (white space around a value
\* is allowed); val is the number read
Unmarshal(value) ==
    LET digits == TrimSpace(value)
    IN  [err |-> digits = <<>> \/ \E i \in 1..Len(digits) : digits[i] # "1",
         val |-> digits]

\* strings.Join(lines, "\n")
RECURSIVE Join(_)
Join(lines) ==
    IF lines = <<>> THEN <<>>
    ELSE IF Len(lines) = 1 THEN lines[1]
    ELSE lines[1] \o <<"\n">> \o Join(Tail(lines))

\* bufio.Scanner.Scan with the default buffer: false at the end of the text,
\* and at a line that does not fit the buffer
TooLong(line) == \E i \in 1..Len(line) : line[i] = "L"
Scan(comment, i) == i < Len(comment) /\ ~TooLong(comment[i + 1])

NoMetadata == [x \in {} |-> <<>>]
NoExtract ==
    [pc |-> "idle", comment |-> <<>>, i |-> 0, lines |-> <<>>,
     metadata |-> NoMetadata, remainder |-> <<>>, err |-> "nil"]

\* ---- parseTypeDecl on types that hold no record to parse ----

\* The predeclared kinds a declaration can name.
BasicKinds ==
    {"string", "bool", "int", "int8", "int16", "int32", "int64",
     "uint", "uint8", "uint16", "uint32", "uint64", "float32", "float64"}

\* The declared types parseTypeDecl finishes without calling parseObject:
\* the predeclared kinds, interface{}, maps of them written in place, and
\* the named types Alias and Params; each as written, behind a pointer, in
\* a slice, and in a slice of pointers.
LeafTypes ==
    {Basic(n) : n \in BasicKinds}
        \cup {InterfaceLit,
              MapOf(Basic("string"), InterfaceLit),
              MapOf(Basic("string"), Basic("int")),
              Named(Pleasantries, "Alias"),
              Named(Pleasantries, "Params")}

DeclaredTypes ==
    LeafTypes \cup {Pointer(t) : t \in LeafTypes}
              \cup {Slice(t) : t \in LeafTypes}
              \cup {Slice(Pointer(t)) : t \in LeafTypes}

NoHint == [pc |-> "idle", pkg |-> "", objType |-> InterfaceLit, t |-> ZeroType]

\* A field or parameter of the type objType is reached in package pkg.
CallParseTypeDecl ==
    /\ hint.pc = "idle"
    /\ \E pkg \in {Pleasantries, Extra}, objType \in DeclaredTypes :
           hint' = [NoHint EXCEPT !.pc = "called", !.pkg = pkg, !.objType = objType]
    /\ UNCHANGED <<parserVars, extract, returned>>

\* parseTypeDecl returns the Type.
ReturnType ==
    /\ hint.pc = "called"
    /\ hint' = [hint EXCEPT !.pc = "returned",
                            !.t = ParseTypeDeclResult(hint.pkg, hint.objType).t]
    /\ UNCHANGED <<parserVars, extract, returned>>



\* The method lists of the program.
AllMethodLists == UNION { MethodLists(n) : n \in InterfaceNames }
NoProgram == [x \in {} |-> <<>>]

Init ==
    /\ patterns = <<>>
    /\ program = NoProgram
    /\ IncludeInterfaces = <<>>
    /\ ExcludeInterfaces = <<>>
    /\ def = [PackageName |-> "", Services |-> <<>>, Objects |-> <<>>,
              Imports |-> NoImports]
    /\ outputObjects = {}
    /\ objects = {}
    /\ excludedObjectsTypeIDs = <<>>
    /\ pkgIdx = 0
    /\ nameIdx = 0
    /\ stack = <<>>
    /\ pc = "new"
    /\ err = NilErr
    /\ inMethod = <<>>
    /\ extract = NoExtract
    /\ returned = <<>>
    /\ hint = NoHint

\* ------------------------------------------------------------------------
\* Helpers of the actions
\* ------------------------------------------------------------------------

Top == stack[Len(stack)]
Below == SubSeq(stack, 1, Len(stack) - 1)

\* the messages errors.Wrap adds while an error travels up the calls
RECURSIVE Wraps(_)
Wraps(stk) ==
    IF stk = <<>> THEN <<>>
    ELSE LET fr == stk[Len(stk)]
             rest == Wraps(SubSeq(stk, 1, Len(stk) - 1))
         IN  CASE fr.fn = "parseObject" -> <<"parse type">> \o rest
               [] fr.fn = "parseMethod" /\ fr.stage = "input" ->
                      <<"parse input object type">> \o rest
               [] fr.fn = "parseMethod" /\ fr.stage = "output" ->
                      <<"parse output object type">> \o rest
               [] OTHER -> rest

\* the resolver closure's writes to p.def.Imports
WithImports(imports, paths) ==
    [x \in DOMAIN imports \cup { paths[i] : i \in 1..Len(paths) } |-> PkgName(x)]

\* A faulty variant: the check of the input parameters without its upper bound
InputSignatureErrorNoUpperBound(params) ==
    \/ Len(params) = 2 /\ TypeString(params[1], FullPath) # <<"context", ".", "Context">>
    \/ Len(params) < 1

\* parseMethod: the checks of the input parameters and of the results
InputSignatureError(params) ==
    \/ Len(params) = 2 /\ TypeString(params[1], FullPath) # <<"context", ".", "Context">>
    \/ Len(params) < 1
    \/ Len(params) > 2
OutputSignatureError(results) ==
    \/ Len(results) = 2 /\ TypeString(results[2], FullPath) # <<"error">>
    \/ Len(results) < 1
    \/ Len(results) > 2

\* A faulty variant: the include-list test inverted
NotIncludedInverted(include, name) == Len(include) > 0 /\ isInSlice(include, name)

\* Parse: is the interface passed over because of the include-list
NotIncluded(include, name) == Len(include) > 0 /\ ~isInSlice(include, name)

\* A faulty variant: the name is looked up among the objects already appended to the
\* definition instead of in the set of marked names
IsKnownOnceAppended(known, name) ==
    \E i \in 1..Len(def.Objects) : def.Objects[i].Name = name

\* A faulty variant: the name is looked up with the pointer marker left on it
IsKnownStarred(known, name) == ("*" \o name) \in known

\* parseObject: has the object of this name been parsed already
IsKnown(known, name) == name \in known

\* Parse: the objects that stay when the excluded type IDs are removed
NonExcludedObjects(objs, excludedIDs) ==
    LET Kept(object) ==
            ~\E i \in 1..Len(excludedIDs) : object.TypeID = excludedIDs[i]
    IN  SelectSeq(objs, Kept)

\* Definition.Object: the index of the first object of that name, 0 if none
ObjectIndex(objs, name) ==
    IF \E i \in 1..Len(objs) : <<objs[i].Name>> = name
    THEN CHOOSE i \in 1..Len(objs) :
            /\ <<objs[i].Name>> = name
            /\ \A j \in 1..(i - 1) : <<objs[j].Name>> # name
    ELSE 0

\* A faulty variant: the loop ends at the first name it cannot find
RECURSIVE AppendErrorFieldsUntilMiss(_, _)
AppendErrorFieldsUntilMiss(objs, order) ==
    IF order = <<>> THEN objs
    ELSE LET i == ObjectIndex(objs, Head(order))
         IN  IF i = 0 THEN objs
             ELSE AppendErrorFieldsUntilMiss(
                     [objs EXCEPT ![i].Fields = Append(@, errorField)], Tail(order))

\* addOutputFields: the loop over p.outputObjects in the order given
RECURSIVE AppendErrorFields(_, _)
AppendErrorFields(objs, order) ==
    IF order = <<>> THEN objs
    ELSE LET i == ObjectIndex(objs, Head(order))
         IN  AppendErrorFields(
                IF i = 0 THEN objs
                ELSE [objs EXCEPT ![i].Fields = Append(@, errorField)],
                Tail(order))

\* the orders in which a map's keys may be ranged over
Orderings(S) ==
    { f \in [1..Cardinality(S) -> S] :
        \A i, j \in 1..Cardinality(S) : i # j => f[i] # f[j] }

\* the loop in Parse moves on to the next name of the scope
Advance ==
    /\ nameIdx' = nameIdx + 1
    /\ pc' = IF nameIdx + 1 > Len(ScopeNames(patterns[pkgIdx])) THEN "package" ELSE "scan"
    /\ pkgIdx' = pkgIdx

\* Parse returns p.def and the error
Fail(kind, wraps) ==
    /\ pc' = "failed"
    /\ err' = [kind |-> kind, wraps |-> wraps]
    /\ stack' = <<>>


\* ------------------------------------------------------------------------
\* Actions
\* ------------------------------------------------------------------------

\* New, and the caller's setting of the include-list and the exclude-list.
New ==
    /\ pc = "new"
    /\ patterns' \in PatternChoices
    /\ IncludeInterfaces' \in FilterChoices
    /\ ExcludeInterfaces' \in FilterChoices
    /\ pc' = "idle"
    /\ UNCHANGED <<program, def, outputObjects, objects, excludedObjectsTypeIDs, pkgIdx,
                   nameIdx, stack, err, inMethod>>

\* Parse, up to the loop over the packages: packages.Load finds the
\* declarations of the packages.
Parse ==
    /\ pc = "idle"
    /\ program' \in [Declared(patterns) -> AllMethodLists]
    /\ \A n \in Declared(patterns) : program'[n] \in MethodLists(n)
    /\ outputObjects' = {}
    /\ objects' = {}
    /\ excludedObjectsTypeIDs' = <<>>
    /\ pkgIdx' = 0
    /\ nameIdx' = 0
    /\ pc' = "package"
    /\ UNCHANGED <<patterns, IncludeInterfaces, ExcludeInterfaces, def, stack, err,
                   inMethod>>

\* Parse: the next package of the loop, or the loop's end.
NextPackage ==
    /\ pc = "package"
    /\ IF pkgIdx < Len(patterns)
       THEN /\ pkgIdx' = pkgIdx + 1
            /\ nameIdx' = 1
            /\ def' = [def EXCEPT !.PackageName = PkgName(patterns[pkgIdx + 1])]
            /\ pc' = IF ScopeNames(patterns[pkgIdx + 1]) = <<>> THEN "package" ELSE "scan"
       ELSE /\ pc' = "prune"
            /\ UNCHANGED <<pkgIdx, nameIdx, def>>
    /\ UNCHANGED <<inputs, outputObjects, objects, excludedObjectsTypeIDs, stack, err,
                   inMethod>>

\* Parse: an interface that is not on a non-empty include-list is passed over.
SkipInterface ==
    /\ pc = "scan"
    /\ NotIncluded(IncludeInterfaces, ScopeNames(patterns[pkgIdx])[nameIdx])
    /\ Advance
    /\ UNCHANGED <<inputs, def, outputObjects, objects, excludedObjectsTypeIDs, stack,
                   err, inMethod>>

\* Parse calls parseService.
CallParseService ==
    /\ pc = "scan"
    /\ ~NotIncluded(IncludeInterfaces, ScopeNames(patterns[pkgIdx])[nameIdx])
    /\ stack' = << [fn |-> "parseService",
                    s |-> [Name |-> ScopeNames(patterns[pkgIdx])[nameIdx],
                           Methods |-> <<>>],
                    i |-> 1] >>
    /\ pc' = "service"
    /\ UNCHANGED <<inputs, def, outputObjects, objects, excludedObjectsTypeIDs, pkgIdx,
                   nameIdx, err, inMethod>>

\* parseService calls parseMethod, which checks the input parameters and
\* calls parseTypeDecl with the last of them.
CallParseMethod ==
    /\ pc = "service"
    /\ Top.fn = "parseService"
    /\ Top.i <= Len(program[Top.s.Name])
    /\ Len(stack) + 2 <= MaxDepth
    /\ LET methodType == program[Top.s.Name][Top.i] IN
       /\ inMethod' = <<Top.s.Name, methodType.name>>
       /\ IF InputSignatureError(methodType.params)
          THEN Fail("invalid method signature", <<>>)
          ELSE /\ stack' = stack \o
                    << [fn |-> "parseMethod",
                        methodType |-> methodType,
                        stage |-> "input",
                        m |-> [Name |-> methodType.name,
                               InputObject |-> ZeroType,
                               OutputObject |-> ZeroType]],
                       [fn |-> "parseTypeDecl",
                        pkg |-> patterns[pkgIdx],
                        typ |-> methodType.params[Len(methodType.params)],
                        calls |-> ObjectCalls(methodType.params[Len(methodType.params)])] >>
               /\ UNCHANGED <<pc, err>>
    /\ UNCHANGED <<inputs, def, outputObjects, objects, excludedObjectsTypeIDs, pkgIdx,
                   nameIdx>>

\* parseTypeDecl calls parseObject, which returns at once for a known name
\* and otherwise marks the name and starts on the fields.
CallParseObject ==
    /\ pc = "service"
    /\ Top.fn = "parseTypeDecl"
    /\ Top.calls # <<>>
    /\ LET o == Head(Top.calls)
           caller == [Top EXCEPT !.calls = Tail(@)]
       IN  IF IsKnown(objects, o.name)
           THEN /\ stack' = Append(Below, caller)
                /\ UNCHANGED objects
           ELSE /\ Len(stack) < MaxDepth
                /\ objects' = objects \cup {o.name}
                /\ stack' = Below \o
                     << caller,
                        [fn |-> "parseObject",
                         pkg |-> Top.pkg,
                         o |-> o,
                         obj |-> NewObject(Top.pkg, o),
                         i |-> 1,
                         field |-> ZeroField] >>
    /\ UNCHANGED <<inputs, def, outputObjects, excludedObjectsTypeIDs, pkgIdx, nameIdx,
                   pc, err, inMethod>>

\* A faulty variant: parseObject hands every field to parseField
ExportedAlways(v) == TRUE

\* parseObject: the test of a field before parseField is called for it.
Exported(v) == v.exported

\* parseObject: one round of the loop over the fields, with parseField up to
\* its call of parseTypeDecl.
ParseObjectField ==
    /\ pc = "service"
    /\ Top.fn = "parseObject"
    /\ Top.i <= Len(StructFields(Top.o.pkg, Top.o.name))
    /\ LET v == StructFields(Top.o.pkg, Top.o.name)[Top.i]
           parsed == parseTags(v.tag)
           f == ParseFieldHead(v, parsed.fieldTags)
           next == [Top EXCEPT !.i = @ + 1]
       IN  IF ~Exported(v)
           THEN /\ stack' = Append(Below, next)
                /\ UNCHANGED <<pc, err>>
           ELSE IF parsed.err
           THEN Fail("parse tag", <<"parse field tag">> \o Wraps(Below))
           ELSE IF ~v.exported
           THEN Fail("must be exported", Wraps(Below))
           ELSE IF f.Skip
           THEN /\ stack' = Append(Below, next)
                /\ UNCHANGED <<pc, err>>
           ELSE /\ Len(stack) < MaxDepth
                /\ stack' = Below \o
                     << [Top EXCEPT !.field = f],
                        [fn |-> "parseTypeDecl",
                         pkg |-> Top.pkg,
                         typ |-> v.typ,
                         calls |-> ObjectCalls(v.typ)] >>
                /\ UNCHANGED <<pc, err>>
    /\ UNCHANGED <<inputs, def, outputObjects, objects, excludedObjectsTypeIDs, pkgIdx,
                   nameIdx, inMethod>>

\* parseObject appends the object to the definition and returns.
ReturnParseObject ==
    /\ pc = "service"
    /\ Top.fn = "parseObject"
    /\ Top.i > Len(StructFields(Top.o.pkg, Top.o.name))
    /\ def' = [def EXCEPT !.Objects = Append(@, Top.obj)]
    /\ stack' = Below
    /\ UNCHANGED <<inputs, outputObjects, objects, excludedObjectsTypeIDs, pkgIdx,
                   nameIdx, pc, err, inMethod>>

\* parseTypeDecl returns to parseField, and parseField to parseObject, which
\* appends the field.
ReturnFieldType ==
    /\ pc = "service"
    /\ Top.fn = "parseTypeDecl"
    /\ Top.calls = <<>>
    /\ Below[Len(Below)].fn = "parseObject"
    /\ LET r == ParseTypeDeclResult(Top.pkg, Top.typ)
           caller == Below[Len(Below)]
       IN  IF r.err
           THEN /\ Fail("nested structs not supported", Wraps(Below))
                /\ UNCHANGED def
           ELSE /\ def' = [def EXCEPT !.Imports = WithImports(@, r.imports)]
                /\ stack' = [Below EXCEPT ![Len(Below)] =
                                [caller EXCEPT
                                    !.obj.Fields = Append(@, [caller.field EXCEPT !.Type = r.t]),
                                    !.i = @ + 1,
                                    !.field = ZeroField]]
                /\ UNCHANGED <<pc, err>>
    /\ UNCHANGED <<inputs, outputObjects, objects, excludedObjectsTypeIDs, pkgIdx,
                   nameIdx, inMethod>>

\* parseTypeDecl returns the input object to parseMethod, which checks the
\* results and calls parseTypeDecl with the first of them.
ReturnInputType ==
    /\ pc = "service"
    /\ Top.fn = "parseTypeDecl"
    /\ Top.calls = <<>>
    /\ Below[Len(Below)].fn = "parseMethod"
    /\ Below[Len(Below)].stage = "input"
    /\ LET r == ParseTypeDeclResult(Top.pkg, Top.typ)
           caller == Below[Len(Below)]
           results == caller.methodType.results
       IN  IF r.err
           THEN /\ Fail("nested structs not supported", Wraps(Below))
                /\ UNCHANGED def
           ELSE /\ def' = [def EXCEPT !.Imports = WithImports(@, r.imports)]
                /\ IF OutputSignatureError(results)
                   THEN Fail("invalid method signature", <<>>)
                   ELSE /\ stack' = [Below EXCEPT ![Len(Below)] =
                                        [caller EXCEPT !.m.InputObject = r.t,
                                                       !.stage = "output"]]
                                    \o << [fn |-> "parseTypeDecl",
                                           pkg |-> Top.pkg,
                                           typ |-> results[1],
                                           calls |-> ObjectCalls(results[1])] >>
                        /\ UNCHANGED <<pc, err>>
    /\ UNCHANGED <<inputs, outputObjects, objects, excludedObjectsTypeIDs, pkgIdx,
                   nameIdx, inMethod>>

\* parseTypeDecl returns the output object to parseMethod, which marks its
\* type name and returns the method to parseService.
ReturnOutputType ==
    /\ pc = "service"
    /\ Top.fn = "parseTypeDecl"
    /\ Top.calls = <<>>
    /\ Below[Len(Below)].fn = "parseMethod"
    /\ Below[Len(Below)].stage = "output"
    /\ LET r == ParseTypeDeclResult(Top.pkg, Top.typ)
           caller == Below[Len(Below)]
           service == stack[Len(stack) - 2]
       IN  IF r.err
           THEN /\ Fail("nested structs not supported", Wraps(Below))
                /\ UNCHANGED <<def, outputObjects>>
           ELSE /\ def' = [def EXCEPT !.Imports = WithImports(@, r.imports)]
                /\ outputObjects' = outputObjects \cup {r.t.TypeName}
                /\ stack' = << [service EXCEPT
                                  !.s.Methods =
                                      Append(@, [caller.m EXCEPT !.OutputObject = r.t]),
                                  !.i = @ + 1] >>
                /\ UNCHANGED <<pc, err>>
    /\ UNCHANGED <<inputs, objects, excludedObjectsTypeIDs, pkgIdx, nameIdx, inMethod>>

\* parseService returns; Parse keeps the service, or notes the type IDs of
\* an excluded one, and moves on.
ReturnParseService ==
    /\ pc = "service"
    /\ Top.fn = "parseService"
    /\ Top.i > Len(program[Top.s.Name])
    /\ IF isInSlice(ExcludeInterfaces, Top.s.Name)
       THEN /\ excludedObjectsTypeIDs' =
                  excludedObjectsTypeIDs \o
                  [k \in 1..(2 * Len(Top.s.Methods)) |->
                      IF k % 2 = 1 THEN Top.s.Methods[(k + 1) \div 2].InputObject.TypeID
                      ELSE Top.s.Methods[k \div 2].OutputObject.TypeID]
            /\ UNCHANGED def
       ELSE /\ def' = [def EXCEPT !.Services = Append(@, Top.s)]
            /\ UNCHANGED excludedObjectsTypeIDs
    /\ stack' = <<>>
    /\ Advance
    /\ UNCHANGED <<inputs, outputObjects, objects, err, inMethod>>

\* Parse removes the excluded objects.
RemoveExcluded ==
    /\ pc = "prune"
    /\ def' = [def EXCEPT !.Objects = NonExcludedObjects(@, excludedObjectsTypeIDs)]
    /\ pc' = "sort"
    /\ UNCHANGED <<inputs, outputObjects, objects, excludedObjectsTypeIDs, pkgIdx,
                   nameIdx, stack, err, inMethod>>

\* Parse sorts the services and the objects.
SortDefinition ==
    /\ pc = "sort"
    /\ def' = [def EXCEPT !.Services = SortSlice(@), !.Objects = SortSlice(@)]
    /\ pc' = "inject"
    /\ UNCHANGED <<inputs, outputObjects, objects, excludedObjectsTypeIDs, pkgIdx,
                   nameIdx, stack, err, inMethod>>

\* Parse calls addOutputFields, which ranges over the map in some order,
\* and returns the definition.
AddOutputFields ==
    /\ pc = "inject"
    /\ \E order \in Orderings(outputObjects) :
          def' = [def EXCEPT !.Objects = AppendErrorFields(@, order)]
    /\ pc' = "done"
    /\ UNCHANGED <<inputs, outputObjects, objects, excludedObjectsTypeIDs, pkgIdx,
                   nameIdx, stack, err, inMethod>>

\* the steps of a Parse under way
Step ==
    \/ NextPackage
    \/ SkipInterface
    \/ CallParseService
    \/ CallParseMethod
    \/ CallParseObject
    \/ ParseObjectField
    \/ ReturnParseObject
    \/ ReturnFieldType
    \/ ReturnInputType
    \/ ReturnOutputType
    \/ ReturnParseService
    \/ RemoveExcluded
    \/ SortDefinition
    \/ AddOutputFields

Next ==
    /\ \/ New
       \/ Parse
       \/ Step
    /\ UNCHANGED <<extract, returned, hint>>

Spec == Init /\ [][Next]_vars

\* Parse on a program whose StrangeTypesService takes
\* DoSomethingStrangeRequest, the record that leads to InfiniteLoop.
ParseCycle ==
    /\ Parse
    /\ program'["StrangeTypesService"] = <<DoSomethingStrange>>

\* New with no exclude-list (exclusion acts only once the traversal is over).
NewNoExclude ==
    /\ New
    /\ ExcludeInterfaces' = <<>>

CycleNext ==
    /\ \/ NewNoExclude
       \/ ParseCycle
       \/ Step
    /\ UNCHANGED <<extract, returned, hint>>

\* The builds of those programs.  Parse is a single synchronous call: a step
\* that is enabled is eventually taken.
LiveSpec == Init /\ [][CycleNext]_vars /\ WF_vars(CycleNext)

\* extractCommentMetadata is called with a comment.
CallExtract ==
    /\ extract.pc = "idle"
    /\ \E comment \in Comments :
          extract' = [NoExtract EXCEPT !.pc = "scan", !.comment = comment]
    /\ UNCHANGED parserVars

\* extractCommentMetadata returns: the map, the lines joined, and no error
ReturnMetadata(e) ==
    [e EXCEPT !.pc = "returned", !.remainder = Join(e.lines), !.err = "nil"]

\* extractCommentMetadata: one round of the loop over the lines.
ScanLine ==
    /\ extract.pc = "scan"
    /\ Scan(extract.comment, extract.i)
    /\ LET line == TrimSpace(extract.comment[extract.i + 1])
           next == [extract EXCEPT !.i = @ + 1]
       IN  IF MatchString(line)
           THEN IF TrimSpace(line) = <<>>
                THEN extract' = ReturnMetadata(next)
                ELSE LET splitLine == SplitN(TrimSpace(line))
                         key == splitLine[1]
                         value == TrimSpace(splitLine[2])
                     IN  IF Unmarshal(value).err
                         THEN extract' = next
                         ELSE extract' =
                                [next EXCEPT !.metadata =
                                   [k \in DOMAIN @ \cup {key} |->
                                      IF k = key THEN Unmarshal(value).val ELSE @[k]]]
           ELSE IF TrimSpace(line) = <<>>
                THEN extract' = next
                ELSE extract' = [next EXCEPT !.lines = Append(@, TrimSpace(line))]
    /\ UNCHANGED parserVars

\* extractCommentMetadata: the scanner has stopped, the function returns.
ReturnExtract ==
    /\ extract.pc = "scan"
    /\ ~Scan(extract.comment, extract.i)
    /\ extract' = ReturnMetadata(extract)
    /\ UNCHANGED parserVars

CommentNext ==
    /\ \/ CallExtract
       \/ ScanLine
       \/ ReturnExtract
    /\ UNCHANGED <<returned, hint>>

\* The zero Definition of a Parser that New has just made.
ZeroDefinition ==
    [PackageName |-> "", Services |-> <<>>, Objects |-> <<>>, Imports |-> NoImports]

\* What a call of Parse returned: p.def and the error.
Returned == [def |-> def, err |-> err]

\* Parse has returned; New makes a second Parser with the same patterns and
\* the same include-list and exclude-list.
NewAgain ==
    /\ pc \in {"done", "failed"}
    /\ returned = <<>>
    /\ returned' = <<Returned>>
    /\ def' = ZeroDefinition
    /\ outputObjects' = {}
    /\ objects' = {}
    /\ excludedObjectsTypeIDs' = <<>>
    /\ pkgIdx' = 0
    /\ nameIdx' = 0
    /\ stack' = <<>>
    /\ err' = NilErr
    /\ inMethod' = <<>>
    /\ pc' = "idle"
    /\ UNCHANGED <<inputs, extract, hint>>

\* Parse; the packages of a second Parser hold the declarations they held
\* for the first.
ParseSame ==
    /\ pc = "idle"
    /\ returned # <<>>
    /\ program' = program
    /\ outputObjects' = {}
    /\ objects' = {}
    /\ excludedObjectsTypeIDs' = <<>>
    /\ pkgIdx' = 0
    /\ nameIdx' = 0
    /\ pc' = "package"
    /\ UNCHANGED <<patterns, IncludeInterfaces, ExcludeInterfaces, def, stack, err,
                   inMethod, extract, returned, hint>>

\* Parse of the first Parser, on any program.
ParseFirst ==
    /\ returned = <<>>
    /\ Parse
    /\ UNCHANGED <<extract, returned, hint>>

ParserSteps ==
    /\ \/ New
       \/ Step
    /\ UNCHANGED <<extract, returned, hint>>

\* Two fresh Parsers, one after the other, on identical input.
TwiceNext ==
    \/ ParserSteps
    \/ ParseFirst
    \/ ParseSame
    \/ NewAgain

TwiceSpec == Init /\ [][TwiceNext]_vars

\* Parse has returned without error and is called again on the same Parser,
\* the packages unchanged.
ParseAgain ==
    /\ pc = "done"
    /\ returned = <<>>
    /\ returned' = <<Returned>>
    /\ outputObjects' = {}
    /\ objects' = {}
    /\ excludedObjectsTypeIDs' = <<>>
    /\ pkgIdx' = 0
    /\ nameIdx' = 0
    /\ inMethod' = <<>>
    /\ pc' = "package"
    /\ UNCHANGED <<inputs, def, stack, err, extract, hint>>

\* One Parser on which Parse is called twice.
RepeatNext ==
    \/ Next
    \/ ParseAgain

RepeatSpec == Init /\ [][RepeatNext]_vars

\* The calls of extractCommentMetadata, on every comment of Comments.
CommentSpec == Init /\ [][CommentNext]_vars

\* The specification of parseTypeDecl on the declared types.
HintNext == CallParseTypeDecl \/ ReturnType

HintSpec == Init /\ [][HintNext]_vars

\* ------------------------------------------------------------------------
\* Vocabulary of the properties
\* ------------------------------------------------------------------------

\* the named struct a declared type denotes once slice and pointer are
\* removed, as a set of <<package, name>> (empty for any other type)
RecordOf(t) ==
    LET typ == UnwrappedTyp(t) IN
    IF typ.k = "named" /\ <<typ.pkg, typ.name>> \in StructNames \ {<<"time", "Time">>}
    THEN {<<typ.pkg, typ.name>>}
    ELSE {}

\* the declaration an Object was built from
DeclOf(object) == <<object.TypeID[1], object.TypeID[3]>>

\* a field declaration whose json tag has the primary value "-"
DashTagged(fd) ==
    \E i \in 1..Len(fd.tag.tags) :
        fd.tag.tags[i].Key = "json" /\ fd.tag.tags[i].Name = "-"

\* the named structs a record's serialised fields refer to
FieldRecords(rec) ==
    LET fields == StructFields(rec[1], rec[2]) IN
    UNION { LET typ == UnwrappedTyp(fields[i].typ) IN
            IF typ.k = "map" THEN RecordOf(typ.args[1]) \cup RecordOf(typ.args[2])
            ELSE RecordOf(fields[i].typ) :
            i \in { j \in 1..Len(fields) : fields[j].exported /\ ~DashTagged(fields[j]) } }

\* the records reachable from a set of records through such fields
RECURSIVE ReachableFrom(_)
ReachableFrom(S) ==
    LET N == S \cup UNION { FieldRecords(r) : r \in S } IN
    IF N = S THEN S ELSE ReachableFrom(N)

\* the interfaces Parse visits and does not pass over
Visited == { n \in Declared(patterns) :
               IncludeInterfaces = <<>> \/ \E i \in 1..Len(IncludeInterfaces) :
                                               IncludeInterfaces[i] = n }
OnExcludeList(n) == \E i \in 1..Len(ExcludeInterfaces) : ExcludeInterfaces[i] = n
Retained == { n \in Visited : ~OnExcludeList(n) }

\* the request and response records of the interfaces of a set
MethodRecords(names) ==
    UNION { UNION { (IF program[n][i].params = <<>> THEN {}
                     ELSE RecordOf(program[n][i].params[Len(program[n][i].params)]))
                    \cup (IF program[n][i].results = <<>> THEN {}
                          ELSE RecordOf(program[n][i].results[1])) :
                    i \in 1..Len(program[n]) } : n \in names }
OutputRecords(names) ==
    UNION { UNION { IF program[n][i].results = <<>> THEN {}
                    ELSE RecordOf(program[n][i].results[1]) :
                    i \in 1..Len(program[n]) } : n \in names }

\* the number of objects of a name in the definition
CountNamed(name) == Cardinality({ i \in 1..Len(def.Objects) : def.Objects[i].Name = name })

\* the names of the fields a record serialises, in declaration order
RECURSIVE SerialisedNames(_, _)
SerialisedNames(fields, i) ==
    IF i > Len(fields) THEN <<>>
    ELSE (IF fields[i].exported /\ ~DashTagged(fields[i]) THEN <<fields[i].name>> ELSE <<>>)
         \o SerialisedNames(fields, i + 1)
FieldNames(object) == [i \in 1..Len(object.Fields) |-> object.Fields[i].Name]

\* the injected field: named Error, string-typed, omitted when empty
IsErrorField(f) ==
    f.Name = "Error" /\ f.OmitEmpty /\ f.Type.TypeName = <<"string">>
ErrorFields(object) ==
    Cardinality({ i \in 1..Len(object.Fields) : IsErrorField(object.Fields[i]) })

\* ------------------------------------------------------------------------
\* Properties
\* ------------------------------------------------------------------------

\* the build visits an interface whose method takes DoSomethingStrangeRequest,
\* which holds *InfiniteLoop; InfiniteLoop embeds *InfiniteLoop and holds
\* []Peer, and Peer holds *InfiniteLoop
CycleInput ==
    /\ pc # "new" /\ pc # "idle"
    /\ "StrangeTypesService" \in Visited
    /\ program["StrangeTypesService"] = <<DoSomethingStrange>>
    /\ \A n \in Visited \ {"StrangeTypesService"} :
          \A i \in 1..Len(program[n]) :
             ~InputSignatureError(program[n][i].params)

\* every field of an Object of the definition that is declared as a pointer
\* to a record from which the Object's own record is reachable is typed
\* optional and as an object
CyclicFieldsOptional ==
    \A i \in 1..Len(def.Objects) :
       LET object == def.Objects[i]
           fields == StructFields(DeclOf(object)[1], DeclOf(object)[2])
       IN  \A j \in 1..Len(fields) :
              (/\ fields[j].typ.k = "pointer"
               /\ RecordOf(fields[j].typ) # {}
               /\ DeclOf(object) \in ReachableFrom(RecordOf(fields[j].typ)))
              => \E f \in 1..Len(object.Fields) :
                    /\ object.Fields[f].Name = fields[j].name
                    /\ IsOptional(object.Fields[f].Type)
                    /\ object.Fields[f].Type.IsObject

CycleBuilt ==
    /\ pc = "done"
    /\ err = NilErr
    /\ CountNamed("InfiniteLoop") = 1
    /\ CountNamed("Peer") = 1
    /\ CyclicFieldsOptional

\* C1: a build whose type graph holds a record referring to itself through a
\* pointer (InfiniteLoop) and records referring to each other (InfiniteLoop
\* and Peer) returns without error, with each of these records exactly once
\* among the objects and the referring fields optional and object-typed.
C1_CycleTermination == CycleInput ~> CycleBuilt

C1_Witness == CycleInput /\ CycleBuilt

\* C2: after a successful Parse no two objects of the definition have the
\* same name.
C2_UniqueObjectNames ==
    pc = "done" =>
       \A i, j \in 1..Len(def.Objects) :
          i # j => def.Objects[i].Name # def.Objects[j].Name

\* a record referred to by value, by pointer, as a slice element and as a map
\* value, from two services
C2_Witness ==
    /\ pc = "done"
    /\ program["GreeterService"] = <<List>>
    /\ program["StrangeTypesService"] = <<GreetCtx>>
    /\ CountNamed("GreetResponse") = 1
    /\ CountNamed("Key") = 1
    /\ Len(def.Services) > 1


\* C3: after a successful Parse every Object that is the response record of
\* a method of a retained service has exactly one injected Error field
\* (string-typed, omitted when empty), whether the method returns the record,
\* a pointer to it, a slice of it, or a record of another package.
C3_OutputErrorField ==
    pc = "done" =>
       \A k \in 1..Len(def.Objects) :
          DeclOf(def.Objects[k]) \in OutputRecords(Retained)
             => ErrorFields(def.Objects[k]) = 1

\* C4: after a successful Parse an Object whose record is the response type
\* of no method has exactly its own exported, non-skipped declared fields,
\* in declaration order, and so no injected Error field.
C4_InputOnlyUntouched ==
    pc = "done" =>
       \A k \in 1..Len(def.Objects) :
          DeclOf(def.Objects[k]) \notin OutputRecords(Declared(patterns))
             => FieldNames(def.Objects[k]) =
                   SerialisedNames(StructFields(DeclOf(def.Objects[k])[1],
                                                DeclOf(def.Objects[k])[2]), 1)

\* the shapes parseMethod accepts, read off the declaration
ParamsOK(md) ==
    \/ Len(md.params) = 1
    \/ Len(md.params) = 2 /\ md.params[1] = ContextContext
ResultsOK(md) ==
    \/ Len(md.results) = 1
    \/ Len(md.results) = 2 /\ md.results[2] = ErrorType
ShapeOK(md) == ParamsOK(md) /\ ResultsOK(md)

\* the declaration of the method parseMethod was last called with
LastMethod ==
    LET list == program[inMethod[1]] IN
    list[CHOOSE i \in 1..Len(list) : list[i].name = inMethod[2]]

\* parseMethod has been called and has returned
ParseMethodReturned ==
    /\ inMethod # <<>>
    /\ \A i \in 1..Len(stack) : stack[i].fn # "parseMethod"

\* the methods parseMethod has returned without error, each with the name
\* of its service
BuiltMethods ==
    UNION { { <<def.Services[i].Name, def.Services[i].Methods[j]>> :
                j \in 1..Len(def.Services[i].Methods) } :
            i \in 1..Len(def.Services) }
    \cup (IF stack # <<>> /\ stack[1].fn = "parseService"
          THEN { <<stack[1].s.Name, stack[1].s.Methods[j]>> :
                   j \in 1..Len(stack[1].s.Methods) }
          ELSE {})
DeclaredMethod(service, name) ==
    LET list == program[service] IN
    list[CHOOSE i \in 1..Len(list) : list[i].name = name]

\* a method that parseMethod accepted has a valid shape, the last parameter
\* as its InputObject and the first result as its OutputObject
BuiltMethodsRight ==
    \A b \in BuiltMethods :
       LET md == DeclaredMethod(b[1], b[2].Name) IN
       /\ ShapeOK(md)
       /\ b[2].InputObject.ObjectName =
             TypeString(OriginalTyp(md.params[Len(md.params)]), "")
       /\ b[2].InputObject.Multiple = (md.params[Len(md.params)].k = "slice")
       /\ b[2].OutputObject.ObjectName = TypeString(OriginalTyp(md.results[1]), "")
       /\ b[2].OutputObject.Multiple = (md.results[1].k = "slice")

C6_RetainedObjectsKept ==
    pc = "done" =>
       \A i \in 1..Len(def.Services) :
          \A j \in 1..Len(def.Services[i].Methods) :
             LET m == def.Services[i].Methods[j] IN
             /\ m.InputObject.IsObject
                   => \E k \in 1..Len(def.Objects) :
                         <<def.Objects[k].Name>> = m.InputObject.CleanObjectName
             /\ m.OutputObject.IsObject
                   => \E k \in 1..Len(def.Objects) :
                         <<def.Objects[k].Name>> = m.OutputObject.CleanObjectName

\* the visited interfaces that are on the exclude-list
Excluded == { n \in Visited : OnExcludeList(n) }

\* C7: after a successful Parse no Object is left whose record is reachable
\* from the methods of excluded services only.
C7_ExcludedOnlyPruned ==
    pc = "done" =>
       \A k \in 1..Len(def.Objects) :
          ~(/\ DeclOf(def.Objects[k]) \in ReachableFrom(MethodRecords(Excluded))
            /\ DeclOf(def.Objects[k]) \notin ReachableFrom(MethodRecords(Retained)))

\* Parse stands before an interface that is not on the non-empty include-list
AtUnlistedInterface ==
    /\ pc = "scan"
    /\ IncludeInterfaces # <<>>
    /\ \A i \in 1..Len(IncludeInterfaces) :
          IncludeInterfaces[i] # ScopeNames(patterns[pkgIdx])[nameIdx]

\* C8: the step of Parse at an interface that is not on a non-empty
\* include-list leaves the services, objects and imports of the definition,
\* the known-objects set and the output-object-names set as they are, calls
\* nothing and returns no error; and no build fails in such an interface.
C8_IncludeSkip ==
    /\ [][AtUnlistedInterface =>
             /\ def' = def
             /\ objects' = objects
             /\ outputObjects' = outputObjects
             /\ excludedObjectsTypeIDs' = excludedObjectsTypeIDs
             /\ stack' = <<>>
             /\ err' = err
             /\ pc' \in {"scan", "package"}]_vars
    /\ [](pc = "failed" => inMethod[1] \in Visited)
    /\ [](\A i \in 1..Len(def.Services) : def.Services[i].Name \in Visited)

\* a build that passed over an interface with an invalid method and succeeded
C8_Witness ==
    /\ pc = "done"
    /\ IncludeInterfaces = <<"GreeterService">>
    /\ program["StrangeTypesService"] = <<TwoArgs>>
    /\ Len(def.Services) = 1
    /\ Len(def.Objects) > 0

\* ascending order of the names of a list
Ascending(list) ==
    \A i \in 1..(Len(list) - 1) : NameRank(list[i].Name) < NameRank(list[i + 1].Name)

\* C9: in the definition a successful Parse returns, the services and the
\* objects are each in ascending order of name.
C9_SortedByName ==
    pc = "done" => Ascending(def.Services) /\ Ascending(def.Objects)

\* the packages were loaded with AcclaimerService last, the traversal met
\* GreetResponse before GreetRequest, and an Error field was injected
C9_Witness ==
    /\ pc = "done"
    /\ patterns = <<Pleasantries, Extra>>
    /\ Len(def.Services) > 2
    /\ def.Services[1].Name = "AcclaimerService"
    /\ program["GreeterService"] = <<List>>
    /\ \E k \in 1..Len(def.Objects) : ErrorFields(def.Objects[k]) > 0

\* the objects built so far: those of the definition and those whose fields
\* are being read
ObjectsInProgress ==
    { def.Objects[k] : k \in 1..Len(def.Objects) }
    \cup { stack[i].obj : i \in { j \in 1..Len(stack) : stack[j].fn = "parseObject" } }

\* C10: a field whose json tag is "-" is in no Object's Fields, parseTypeDecl
\* is never called with it, no Object is registered for Hidden (referred to
\* only by such a field and by a non-exported one), and the build of
\* DoSomethingStrangeRequest, which has a struct{} field tagged "-", does not
\* fail.
C10_SkippedFields ==
    /\ \A object \in ObjectsInProgress :
          \A f \in 1..Len(object.Fields) :
             \A j \in 1..Len(StructFields(DeclOf(object)[1], DeclOf(object)[2])) :
                LET fd == StructFields(DeclOf(object)[1], DeclOf(object)[2])[j] IN
                fd.name = object.Fields[f].Name => ~DashTagged(fd)
    /\ \A i \in 2..Len(stack) :
          (stack[i].fn = "parseTypeDecl" /\ stack[i - 1].fn = "parseObject")
             => ~DashTagged(StructFields(stack[i - 1].o.pkg, stack[i - 1].o.name)[stack[i - 1].i])
    /\ "Hidden" \notin objects
    /\ (pc = "failed" /\ inMethod # <<>>) => inMethod[2] # "DoSomethingStrange"

\* DoSomethingStrangeRequest was built, without Private and Gone
C10_Witness ==
    /\ pc = "done"
    /\ \E k \in 1..Len(def.Objects) :
          /\ def.Objects[k].Name = "DoSomethingStrangeRequest"
          /\ FieldNames(def.Objects[k]) = <<"Anything", "OptionalTime", "InfiniteLoop">>


\* the lines of a comment without the white space around them
Trimmed(comment) == [i \in 1..Len(comment) |-> TrimSpace(comment[i])]

\* the prose lines of a comment: not blank, no ": "
IsProse(line) == line # <<>> /\ ~MatchString(line)
ProseLines(comment) == SelectSeq(Trimmed(comment), IsProse)

\* the metadata-shaped lines of a comment whose value parses
ParseableLines(comment) ==
    { i \in 1..Len(comment) :
        /\ MatchString(Trimmed(comment)[i])
        /\ ~Unmarshal(SplitN(Trimmed(comment)[i])[2]).err }
KeyOfLine(comment, i) == SplitN(Trimmed(comment)[i])[1]
ValueOfLine(comment, i) == Unmarshal(SplitN(Trimmed(comment)[i])[2]).val

\* C11: extractCommentMetadata returns no error, the prose lines of the
\* comment in their order joined by newlines, and a mapping with exactly the
\* keys of the metadata-shaped lines whose value parses, each with the value
\* of its last such line; every line of the comment is scanned.
C11_CommentSeparation ==
    extract.pc = "returned" =>
       LET comment == extract.comment IN
       /\ extract.err = "nil"
       /\ extract.i = Len(comment)
       /\ extract.remainder = Join(ProseLines(comment))
       /\ DOMAIN extract.metadata =
             { KeyOfLine(comment, i) : i \in ParseableLines(comment) }
       /\ \A i \in ParseableLines(comment) :
             (\A j \in ParseableLines(comment) :
                 KeyOfLine(comment, j) = KeyOfLine(comment, i) => j <= i)
                => extract.metadata[KeyOfLine(comment, i)] = ValueOfLine(comment, i)


\* C12: the Definition Parse returns together with an error holds no
\* Services and no Objects.
C12_NoPartialResult ==
    pc = "failed" => (def.Services = <<>> /\ def.Objects = <<>>)


\* C13: a second fresh Parser run on the same packages, declarations and
\* include/exclude lists returns the Definition and the error the first one
\* returned, whatever order addOutputFields ranges over the map in.
C13_Determinism ==
    (pc \in {"done", "failed"} /\ returned # <<>>)
       => (def = returned[1].def /\ err = returned[1].err)

\* both Parsers have returned a Definition built from two output names, one
\* of which has no Object
C13_Witness ==
    /\ pc = "done"
    /\ returned # <<>>
    /\ Cardinality(outputObjects) > 1
    /\ \E name \in outputObjects : ObjectIndex(def.Objects, name) = 0
    /\ \E k \in 1..Len(def.Objects) : ErrorFields(def.Objects[k]) = 1


\* the Types the definition holds: those of the methods and those of the
\* fields (the Type of an injected Error field is a literal with no TypeID)
TypesProduced ==
    UNION { UNION { { def.Services[i].Methods[j].InputObject,
                      def.Services[i].Methods[j].OutputObject } :
                    j \in 1..Len(def.Services[i].Methods) } :
            i \in 1..Len(def.Services) }
    \cup UNION { { def.Objects[k].Fields[f].Type : f \in 1..Len(def.Objects[k].Fields) } :
                 k \in 1..Len(def.Objects) }

\* C14: the TypeID of every Type parseTypeDecl produced is a package path,
\* ".", and the clean name (no optionality marker); and a Type with IsObject
\* has the TypeID of the Object of its clean name.
C14_TypeIDClean ==
    \A t \in TypesProduced :
       t.TypeID # <<>>
          => /\ SubSeq(t.TypeID, 3, Len(t.TypeID)) = t.CleanObjectName
             /\ t.IsObject
                   => \A k \in 1..Len(def.Objects) :
                         <<def.Objects[k].Name>> = t.CleanObjectName
                            => def.Objects[k].TypeID = t.TypeID


\* C15: a Type for time.Time, direct or through a pointer, has underlying
\* kind "string" and IsObject false, and no Object is ever registered for
\* time.Time, in the known-objects set or in the definition.
C15_TimeIsLeaf ==
    /\ \A t \in TypesProduced :
          TrimPrefixStar(t.TypeName) = <<"time", ".", "Time">>
             => (t.UnderlyingTypeName = <<"string">> /\ ~t.IsObject)
    /\ "Time" \notin objects
    /\ \A k \in 1..Len(def.Objects) : DeclOf(def.Objects[k]) # <<"time", "Time">>

\* The declared type of the call without pointer and slice, resolved
\* through its name if it has one.
HintKind == Underlying(UnwrappedTyp(hint.objType))

NumberKinds == BasicKinds \ {"string", "bool"}

\* C16: the hints of a returned Type follow the table: interface{} gives
\* any/object, map[string]interface{} (written in place or behind a named
\* type) object/object, string string/string, bool boolean/boolean, every
\* integer and floating-point kind number/number; and a Type with IsObject
\* or IsMap has the script hint object.
C16_HintsTable ==
    hint.pc = "returned"
       => /\ HintKind = InterfaceLit
                => (hint.t.JSType = <<"any">> /\ hint.t.TSType = <<"object">>)
          /\ HintKind = MapOf(Basic("string"), InterfaceLit)
                => (hint.t.JSType = <<"object">> /\ hint.t.TSType = <<"object">>)
          /\ HintKind = Basic("string")
                => (hint.t.JSType = <<"string">> /\ hint.t.TSType = <<"string">>)
          /\ HintKind = Basic("bool")
                => (hint.t.JSType = <<"boolean">> /\ hint.t.TSType = <<"boolean">>)
          /\ (HintKind.k = "basic" /\ HintKind.name \in NumberKinds)
                => (hint.t.JSType = <<"number">> /\ hint.t.TSType = <<"number">>)
          /\ (hint.t.IsObject \/ hint.t.IsMap) => hint.t.JSType = <<"object">>

\* C17: a second Parse on the same Parser, the input unchanged, returns a
\* Definition equal to the one the first call returned.
C17_RepeatedParse ==
    (pc = "done" /\ returned # <<>>) => def = returned[1].def

\* C18: in every state each name of the known-objects set has exactly one
\* Object of that name in the Definition's pool (so the Object is in the
\* pool before any field of its record is read).
C18_KnownObjectsPooled ==
    \A name \in objects : CountNamed(name) = 1

\* the declaration of the field parseObject stands at
FieldAt(frame) == StructFields(frame.o.pkg, frame.o.name)[frame.i]

\* C19: a non-exported field is in no Object's Fields, parseTypeDecl is never
\* called for one, no step that stands at one changes anything but the
\* position in the record (so its tag is not parsed and the build does not
\* fail there), and no build fails with "must be exported".
C19_UnexportedSkipped ==
    /\ [](\A object \in ObjectsInProgress :
            \A f \in 1..Len(object.Fields) :
               \A j \in 1..Len(StructFields(DeclOf(object)[1], DeclOf(object)[2])) :
                  LET fd == StructFields(DeclOf(object)[1], DeclOf(object)[2])[j] IN
                  fd.name = object.Fields[f].Name => fd.exported)
    /\ [](\A i \in 2..Len(stack) :
            (stack[i].fn = "parseTypeDecl" /\ stack[i - 1].fn = "parseObject")
               => FieldAt(stack[i - 1]).exported)
    /\ [](err.kind # "must be exported")
    /\ [][(/\ pc = "service"
           /\ Top.fn = "parseObject"
           /\ Top.i <= Len(StructFields(Top.o.pkg, Top.o.name))
           /\ ~FieldAt(Top).exported)
             => /\ stack' = Append(Below, [Top EXCEPT !.i = @ + 1])
                /\ UNCHANGED <<inputs, def, outputObjects, objects,
                               excludedObjectsTypeIDs, pkgIdx, nameIdx, pc, err>>]_vars

\* GreetRequest, whose non-exported field secret has a malformed tag and the
\* type Hidden, was built with the one field Name
C19_Witness ==
    /\ pc = "done"
    /\ "Hidden" \notin objects
    /\ \E k \in 1..Len(def.Objects) :
          /\ def.Objects[k].Name = "GreetRequest"
          /\ FieldNames(def.Objects[k]) = <<"Name">>

\* C20: after a successful Parse every Type with IsObject that is the
\* InputObject or OutputObject of a method of a Service of the definition, or
\* the Type of a Field of one of its Objects, has an Object of its clean name
\* in the definition whose TypeID names the Type's package and record.
C20_NoDanglingReferences ==
    pc = "done" =>
       \A t \in TypesProduced :
          t.IsObject
             => \E k \in 1..Len(def.Objects) :
                   /\ <<def.Objects[k].Name>> = t.CleanObjectName
                   /\ def.Objects[k].TypeID = <<t.TypeID[1], ".">> \o t.CleanObjectName

====
